---------------------------- MODULE Spec2Model ----------------------------
(***************************************************************************)
(* A model of app.py, the work-order tracker: the order collection, the    *)
(* technician collection, the two upload directories, the clock that       *)
(* names uploaded files, the clients' session cookies, and every request   *)
(* handler that writes one of them, cut into the steps at which it reads   *)
(* or writes the database or the file system.                              *)
(*                                                                         *)
(* Strings the code transforms (free text, job numbers, tokens) are        *)
(* sequences of one-character strings.  Python's None and '' are both      *)
(* falsy wherever the code tests them, and normalize_text(None) = '', so   *)
(* both are the empty sequence.  An optional record (invoice,              *)
(* montaj_completion, the result of find_one) is a sequence of length 0    *)
(* or 1.  The characters written with a diaeresis or cedilla in the source *)
(* ('DÜŞÜK', 'YÜKSEK') are written U and S here.                           *)
(*                                                                         *)
(* Left out: the timestamps no handler reads back (created_at,             *)
(* uploaded_at, completed_at), the SMS gateway call, HTML rendering, and   *)
(* the handlers that only read (list_orders, serve_invoice, serve_photo,   *)
(* montaj_kapama, index, bayi_panel, short_invoice_redirect).              *)
(***************************************************************************)
EXTENDS Naturals, Sequences, FiniteSets

VARIABLES
    orders,        \* orders_collection: the documents, in insertion order
    technicians,   \* technicians_collection: a set of technician documents
    invoiceDir,    \* the stored names of the files under UPLOAD_ROOT
    photoDir,      \* the stored names of the files under PHOTOS_ROOT
    now,           \* datetime.now(UTC_TZ), in seconds
    session,       \* session[c]: client c's cookie says logged_in
    pc,            \* pc[c]: where the handler of client c's request stands
    req,           \* req[c]: the request: endpoint, URL argument, method
    loc,           \* loc[c]: the handler's local variables
    resp           \* resp[c]: the status code of the response, 0 before it

vars == <<orders, technicians, invoiceDir, photoDir, now, session, pc, req, loc, resp>>

---------------------------------------------------------------------------
(* Bounds of the model. *)

\* the clock runs from 0 to MaxTime
MaxTime == 1
\* a completion is accepted by the model while the photos list stays this short
MaxPhotos == 2
\* where SpecGen fills the collection, generate_job_no draws among 0 .. MaxGen
MaxGen == 2

Clients == {1, 2}

---------------------------------------------------------------------------
(* Text. *)

None == <<>>

UpperChar(c) ==
    CASE c = "a" -> "A" [] c = "b" -> "B" [] c = "d" -> "D" [] c = "e" -> "E"
      [] c = "k" -> "K" [] c = "n" -> "N" [] c = "o" -> "O" [] c = "r" -> "R"
      [] c = "s" -> "S" [] c = "t" -> "T" [] c = "u" -> "U" [] c = "v" -> "V"
      [] c = "x" -> "X" [] c = "l" -> "L" [] c = "m" -> "M" [] c = "p" -> "P"
      [] c = "q" -> "Q"
      [] OTHER -> c

\* str.upper()
Upper(s) == [i \in 1..Len(s) |-> UpperChar(s[i])]

RECURSIVE LStrip(_)
LStrip(s) == IF s # <<>> /\ Head(s) = " " THEN LStrip(Tail(s)) ELSE s

RECURSIVE RStrip(_)
RStrip(s) == IF s # <<>> /\ s[Len(s)] = " " THEN RStrip(SubSeq(s, 1, Len(s) - 1)) ELSE s

\* str.strip()
Strip(s) == RStrip(LStrip(s))

normalize_text(value) == Upper(Strip(value))

\* dict.get(key) or ''
Get(data, key) == IF key \in DOMAIN data THEN data[key] ELSE None

---------------------------------------------------------------------------
(* Job numbers and tokens. *)

DigitChars == <<"0", "1", "2", "3", "4", "5", "6", "7", "8", "9">>

\* the four random digits of suffix number n
SuffixOf(n) ==
    << DigitChars[((n \div 1000) % 10) + 1], DigitChars[((n \div 100) % 10) + 1],
       DigitChars[((n \div 10) % 10) + 1], DigitChars[(n % 10) + 1] >>

\* f'TE-{suffix}'
JobNoOf(n) == <<"T", "E", "-">> \o SuffixOf(n)

\* random.choices(string.digits, k=4) gives a suffix from 0000 to 9999
MAX_SUFFIX == 9999

\* the suffixes generate_job_no draws when Spec and SpecRace create orders
Suffixes == {0}

JobNos == { JobNoOf(n) : n \in Suffixes }

RECURSIVE RemoveDash(_)
RemoveDash(s) ==
    IF s = <<>> THEN <<>>
    ELSE IF Head(s) = "-" THEN RemoveDash(Tail(s))
    ELSE <<Head(s)>> \o RemoveDash(Tail(s))

job_no_to_token(job_no) == RemoveDash(normalize_text(job_no))

\* A faulty variant: the separator is put back after the third character.
TokenSplitAfterThree(token) ==
    IF token = <<>> THEN None
    ELSE LET sanitized == normalize_text(token)
         IN  IF Len(sanitized) < 3 THEN None
             ELSE SubSeq(sanitized, 1, 3) \o <<"-">> \o SubSeq(sanitized, 4, Len(sanitized))

token_to_job_no(token) ==
    IF token = <<>> THEN None
    ELSE LET sanitized == normalize_text(token)
         IN  IF Len(sanitized) < 3 THEN None
             ELSE SubSeq(sanitized, 1, 2) \o <<"-">> \o SubSeq(sanitized, 3, Len(sanitized))

---------------------------------------------------------------------------
(* The order collection. *)

\* A faulty variant: find_one without its filter returns the first document.
FindFirst(coll, job_no) == IF coll # <<>> THEN <<coll[1]>> ELSE None

\* the position of the first document with this job_no, 0 if there is none
FirstMatch(coll, job_no) ==
    IF \E i \in 1..Len(coll) : coll[i].job_no = job_no
    THEN CHOOSE k \in 1..Len(coll) :
             /\ coll[k].job_no = job_no
             /\ \A m \in 1..(k - 1) : coll[m].job_no # job_no
    ELSE 0

\* orders_collection.find_one({'job_no': job_no}): the first match, or None
FindOne(coll, job_no) ==
    IF FirstMatch(coll, job_no) = 0 THEN None ELSE <<coll[FirstMatch(coll, job_no)]>>

\* A faulty variant: the collection has no unique index on job_no.
NoUniqueIndex(coll, document) == FALSE

\* the unique index on job_no: insert_one raises DuplicateKeyError
DuplicateKey(coll, document) == \E i \in 1..Len(coll) : coll[i].job_no = document.job_no

\* orders_collection.insert_one(document)
InsertOne(coll, document) == Append(coll, document)

\* update_one({'job_no': job_no}, {'$set': update_doc}): the first match gets the
\* fields of update_doc, every other field and every other document is kept
UpdateOne(coll, job_no, update_doc) ==
    LET i == FirstMatch(coll, job_no)
    IN  IF i = 0 THEN coll
        ELSE [coll EXCEPT ![i] =
                 [f \in DOMAIN coll[i] |->
                     IF f \in DOMAIN update_doc THEN update_doc[f] ELSE coll[i][f]]]

\* delete_one({'job_no': job_no}): the first match is removed
DeleteOne(coll, job_no) ==
    LET i == FirstMatch(coll, job_no)
    IN  IF i = 0 THEN coll
        ELSE SubSeq(coll, 1, i - 1) \o SubSeq(coll, i + 1, Len(coll))

\* technicians_collection.count_documents({'level': 1}) > 0, False when it raises
has_admin_user(dbok) == dbok /\ \E t \in technicians : t.level = 1


---------------------------------------------------------------------------
(* Building an order document. *)

REQUIRED_FIELDS == {"priority", "name", "model", "phone", "service", "address"}

PRIORITIES == { <<"Y","U","K","S","E","K">>, <<"O","R","T","A">>, <<"D","U","S","U","K">> }

DEFAULT_PRIORITY == <<"D","U","S","U","K">>

TV_KURULUM == <<"T","V"," ","K","U","R","U","L","U","M">>

\* the fields of data that _build_order_document finds missing
MissingFields(data) == { f \in REQUIRED_FIELDS : Strip(Get(data, f)) = <<>> }

\* the free-text value _build_order_document stores for the note
BuildNote(data) == Strip(Get(data, "note"))

\* A faulty variant: the field is trimmed but keeps its case.
BuildFieldNoUpper(data, key) == Strip(Get(data, key))

\* the free-text value _build_order_document stores for one of the other fields
BuildField(data, key) == normalize_text(Get(data, key))

\* the validated priority
BuildPriority(data) ==
    LET priority == normalize_text(Strip(Get(data, "priority")))
    IN  IF priority \in PRIORITIES THEN priority ELSE DEFAULT_PRIORITY

\* _build_order_document, before generate_job_no fills in job_no
BuildOrderDocument(data) ==
    [ job_no           |-> None,
      priority         |-> BuildPriority(data),
      name             |-> BuildField(data, "name"),
      model            |-> BuildField(data, "model"),
      phone            |-> BuildField(data, "phone"),
      service          |-> BuildField(data, "service"),
      rnu              |-> BuildField(data, "rnu"),
      address          |-> BuildField(data, "address"),
      note             |-> BuildNote(data),
      invoice          |-> None,
      photos           |-> <<>>,
      montaj_completed |-> FALSE,
      montaj_completion |-> None ]

\* the payload _create_order_from_bayi builds from the dealer's form
BayiPayload(form) ==
    [ priority |-> <<"O","R","T","A">>,
      name     |-> normalize_text(Get(form, "name")),
      phone    |-> normalize_text(Get(form, "phone")),
      model    |-> normalize_text(Get(form, "model")),
      service  |-> IF normalize_text(Get(form, "service")) = <<>> THEN TV_KURULUM
                   ELSE normalize_text(Get(form, "service")),
      address  |-> normalize_text(Get(form, "address")),
      rnu      |-> <<>>,
      note     |-> Strip(Get(form, "note")) ]

\* _create_order_from_bayi raises ValueError('Eksik alan: ...')
BayiMissing(form) ==
    \E key \in {"priority", "name", "phone", "model", "service", "address"} :
        BayiPayload(form)[key] = <<>>

---------------------------------------------------------------------------
(* Files. *)

\* werkzeug's secure_filename on the file names the model uploads: the path
\* separators and leading dots go, a name made only of them becomes ''
secure_filename(filename) ==
    CASE filename = "a.pdf"    -> "a.pdf"
      [] filename = "../a.pdf" -> "a.pdf"
      [] filename = "b.jpg"    -> "b.jpg"
      [] OTHER                 -> ""

\* f"{job_no}-{timestamp}-{filename}": the three parts, which the fixed widths
\* of job number and timestamp keep apart
InvoiceStoredName(job_no, timestamp, filename) == <<job_no, timestamp, filename>>

\* f"{job_no}-{timestamp}-{random_part}-{filename}"
PhotoStoredName(job_no, timestamp, random_part, filename) ==
    <<job_no, timestamp, random_part, filename>>

---------------------------------------------------------------------------
(* Requests. *)

LocInit == [job_no |-> None, order |-> None, document |-> None,
            files |-> <<>>, saved_entries |-> <<>>]

ReqNone == [op |-> "none", arg |-> <<>>, method |-> "GET"]

\* A faulty variant: delete_order lacks the session check.
LoginNotRequiredForDelete(op) ==
    op \in {"create_order", "upload_invoice", "complete_order", "update_order",
            "download_photos", "create_technician"}

\* the handlers that start with: if not session.get('logged_in'): return 401
login_required(op) ==
    op \in {"create_order", "upload_invoice", "complete_order", "update_order",
            "delete_order", "download_photos", "create_technician"}

\* the handlers that start with orders_collection.find_one({'job_no': job_no})
LooksUp(op) ==
    op \in {"upload_invoice", "complete_order", "update_order", "delete_order",
            "download_photos", "upload_invoice_form"}

Init ==
    /\ orders = <<>>
    /\ technicians = {}
    /\ invoiceDir = {}
    /\ photoDir = {}
    /\ now = 0
    /\ session = [c \in Clients |-> FALSE]
    /\ pc = [c \in Clients |-> "idle"]
    /\ req = [c \in Clients |-> ReqNone]
    /\ loc = [c \in Clients |-> LocInit]
    /\ resp = [c \in Clients |-> 0]

\* the handler returns a response with this status code; its locals are gone
Done(c, code) ==
    /\ pc' = [pc EXCEPT ![c] = "done"]
    /\ resp' = [resp EXCEPT ![c] = code]
    /\ loc' = [loc EXCEPT ![c] = LocInit]

\* the handler goes on to its next step
Goto(c, label) ==
    /\ pc' = [pc EXCEPT ![c] = label]
    /\ UNCHANGED <<resp, loc>>

\* the handler goes on to its next step with new values of its locals
GotoWith(c, label, locals) ==
    /\ pc' = [pc EXCEPT ![c] = label]
    /\ loc' = [loc EXCEPT ![c] = locals]
    /\ UNCHANGED resp

\* the clock advances by a second
Tick ==
    /\ now < MaxTime
    /\ now' = now + 1
    /\ UNCHANGED <<orders, technicians, invoiceDir, photoDir, session, pc, req, loc, resp>>

\* A request arrives: enforce_initial_setup, then the handler up to its first
\* access to the database.
Begin(c, r, dbok) ==
    /\ pc[c] = "idle"
    /\ req' = [req EXCEPT ![c] = r]
    /\ UNCHANGED <<orders, technicians, invoiceDir, photoDir, now>>
    /\ IF ~has_admin_user(dbok) /\ r.op # "setup_admin"
       THEN Done(c, 302) /\ UNCHANGED session
       ELSE IF login_required(r.op) /\ ~session[c]
       THEN Done(c, 401) /\ UNCHANGED session
       ELSE IF r.op = "logout"
       THEN Done(c, 302) /\ session' = [session EXCEPT ![c] = FALSE]
       ELSE IF r.op = "login" /\ session[c]
       THEN Done(c, 302) /\ UNCHANGED session
       ELSE IF r.op = "upload_invoice_form" /\ token_to_job_no(r.arg) = None
       THEN Done(c, 400) /\ UNCHANGED session
       ELSE /\ UNCHANGED session
            /\ GotoWith(c, CASE LooksUp(r.op) -> "lookup"
                             [] r.op \in {"create_order", "bayi_create_order"} -> "build"
                             [] r.op = "login" -> "login"
                             [] r.op = "setup_admin" -> "setup_check"
                             [] r.op = "create_technician" -> "tech",
                        [LocInit EXCEPT !.job_no =
                            IF r.op = "upload_invoice_form" THEN token_to_job_no(r.arg)
                            ELSE IF LooksUp(r.op) THEN r.arg ELSE None])

\* The response is sent and the client may send its next request.
Return(c) ==
    /\ pc[c] = "done"
    /\ pc' = [pc EXCEPT ![c] = "idle"]
    /\ req' = [req EXCEPT ![c] = ReqNone]
    /\ resp' = [resp EXCEPT ![c] = 0]
    /\ UNCHANGED <<orders, technicians, invoiceDir, photoDir, now, session, loc>>

---------------------------------------------------------------------------
(* Creating an order: create_order, bayi_create_order. *)

\* create_order: _build_order_document up to generate_job_no.
\* bayi_create_order: _create_order_from_bayi, the check of the invoice file,
\* then _build_order_document up to generate_job_no.
Build(c, data, file) ==
    /\ pc[c] = "build"
    /\ UNCHANGED <<orders, technicians, invoiceDir, photoDir, now, session, req>>
    /\ IF req[c].op = "create_order"
       THEN IF MissingFields(data) # {}
            THEN Done(c, 400)
            ELSE GotoWith(c, "gen", [loc[c] EXCEPT !.document = <<BuildOrderDocument(data)>>])
       ELSE IF BayiMissing(data) \/ file = <<>> \/ file[1] = ""
                 \/ MissingFields(BayiPayload(data)) # {}
            THEN Done(c, 400)
            ELSE GotoWith(c, "gen",
                     [loc[c] EXCEPT !.document = <<BuildOrderDocument(BayiPayload(data))>>,
                                    !.files = file])

\* generate_job_no: one turn of its loop with the random suffix n
GenerateJobNo(c, n, dbok) ==
    /\ pc[c] = "gen"
    /\ UNCHANGED <<orders, technicians, invoiceDir, photoDir, now, session, req>>
    /\ IF ~dbok
       THEN Done(c, 500)
       ELSE IF FindOne(orders, JobNoOf(n)) # None
       THEN Goto(c, "gen")
       ELSE GotoWith(c, "insert",
                [loc[c] EXCEPT !.job_no = JobNoOf(n),
                               !.document = <<[loc[c].document[1] EXCEPT !.job_no = JobNoOf(n)]>>])

\* create_order_from_payload: insert_one; create_order then answers 201,
\* bayi_create_order goes on to _store_invoice
InsertOrder(c, dbok) ==
    /\ pc[c] = "insert"
    /\ UNCHANGED <<technicians, invoiceDir, photoDir, now, session, req>>
    /\ IF ~dbok
       THEN Done(c, 500) /\ UNCHANGED orders
       ELSE IF DuplicateKey(orders, loc[c].document[1])
       THEN Done(c, 400) /\ UNCHANGED orders
       ELSE /\ orders' = InsertOne(orders, loc[c].document[1])
            /\ IF req[c].op = "create_order"
               THEN Done(c, 201)
               ELSE GotoWith(c, "inv_save", [loc[c] EXCEPT !.document = None])

---------------------------------------------------------------------------
(* The handlers addressed to an order. *)

MOUNT_TYPES == { <<"D","U","V","A","R">>, <<"S","E","H","P","A">>, <<"D","I","G","E","R">>, <<>> }

\* Of the document its find_one returned, complete_order later reads the
\* photos, delete_order the invoice and the photos, the others nothing.
ReadLater(op, order) ==
    [ invoice |-> IF op = "delete_order" THEN order.invoice ELSE None,
      photos  |-> order.photos ]

\* the handler's first find_one; a PyMongoError here is not caught (500).
\* complete_order then validates mount_type and takes the uploaded files;
\* download_photos answers from the document it found.
Lookup(c, dbok, mount_type, files) ==
    /\ pc[c] = "lookup"
    /\ UNCHANGED <<orders, technicians, invoiceDir, photoDir, now, session, req>>
    /\ LET order == FindOne(orders, loc[c].job_no)
           op == req[c].op
       IN  IF ~dbok
           THEN Done(c, 500)
           ELSE IF order = None
           THEN Done(c, 404)
           ELSE IF op = "upload_invoice"
           THEN Goto(c, "inv_save")
           ELSE IF op = "upload_invoice_form"
           THEN IF req[c].method = "POST" THEN Goto(c, "inv_save") ELSE Done(c, 200)
           ELSE IF op = "complete_order"
           THEN IF normalize_text(mount_type) \notin MOUNT_TYPES
                THEN Done(c, 400)
                ELSE /\ Len(order[1].photos) + Len(files) <= MaxPhotos
                     /\ GotoWith(c, "photos",
                            [loc[c] EXCEPT !.order = <<ReadLater(op, order[1])>>, !.files = files])
           ELSE IF op = "update_order"
           THEN Goto(c, "upd_db")
           ELSE IF op = "delete_order"
           THEN GotoWith(c, "del_files", [loc[c] EXCEPT !.order = <<ReadLater(op, order[1])>>])
           ELSE IF \E i \in 1..Len(order[1].photos) : order[1].photos[i].stored_name # None
                THEN Done(c, 200) ELSE Done(c, 404)

\* What the handler answers when _store_invoice raises ValueError
InvoiceValueErrorStatus(op) == IF op = "upload_invoice_form" THEN 200 ELSE 400

\* What the handler answers when _store_invoice raises PyMongoError
InvoiceDbErrorStatus(op) == IF op = "upload_invoice_form" THEN 200 ELSE 500

\* What the handler answers with the document _store_invoice returns:
\* format_order(None) raises AttributeError
InvoiceStoredStatus(op, updated) ==
    IF updated = None THEN 500
    ELSE IF op = "upload_invoice" THEN 201 ELSE 200

\* upload_invoice's check that the request has an 'invoice' part, then
\* _store_invoice up to file_storage.save
InvoiceSave(c, file, fsok) ==
    /\ pc[c] = "inv_save"
    /\ UNCHANGED <<orders, technicians, photoDir, now, session, req>>
    /\ LET op == req[c].op
           file_storage == IF op = "bayi_create_order" THEN loc[c].files ELSE file
           filename == IF file_storage = <<>> THEN "" ELSE secure_filename(file_storage[1])
           stored_name == InvoiceStoredName(loc[c].job_no, now, filename)
       IN  IF file_storage = <<>> /\ op = "upload_invoice"
           THEN Done(c, 400) /\ UNCHANGED invoiceDir
           ELSE IF file_storage = <<>> \/ file_storage[1] = "" \/ filename = "" \/ ~fsok
           THEN Done(c, InvoiceValueErrorStatus(op)) /\ UNCHANGED invoiceDir
           ELSE /\ invoiceDir' = invoiceDir \cup {stored_name}
                /\ GotoWith(c, "inv_db",
                       [loc[c] EXCEPT !.files = <<>>,
                                      !.saved_entries = <<[original_name |-> filename,
                                                           stored_name |-> stored_name]>>])

\* the files are unlinked where they exist
Unlink(dir, names) == dir \ names

\* _store_invoice from update_one on, and the handler's response
InvoiceDb(c, dbo) ==
    /\ pc[c] = "inv_db"
    /\ UNCHANGED <<technicians, photoDir, now, session, req>>
    /\ LET op == req[c].op
           entry == loc[c].saved_entries[1]
           updated == UpdateOne(orders, loc[c].job_no, [invoice |-> <<entry>>])
       IN  IF dbo = "update_fails"
           THEN /\ invoiceDir' = Unlink(invoiceDir, {entry.stored_name})
                /\ UNCHANGED orders
                /\ Done(c, InvoiceDbErrorStatus(op))
           ELSE IF dbo = "find_fails"
           THEN /\ invoiceDir' = Unlink(invoiceDir, {entry.stored_name})
                /\ orders' = updated
                /\ Done(c, InvoiceDbErrorStatus(op))
           ELSE /\ UNCHANGED invoiceDir
                /\ orders' = updated
                /\ Done(c, InvoiceStoredStatus(op, FindOne(updated, loc[c].job_no)))

\* the stored names of a list of photo entries
StoredNames(entries) == { entries[i].stored_name : i \in 1..Len(entries) }

\* complete_order: one turn of the loop over the uploaded files, _save_photo
\* included; a ValueError or OSError removes what the request saved so far
SavePhoto(c, random_part, fsok) ==
    /\ pc[c] = "photos"
    /\ loc[c].files # <<>>
    /\ UNCHANGED <<orders, technicians, invoiceDir, now, session, req>>
    /\ LET file_storage == Head(loc[c].files)
           filename == secure_filename(file_storage)
           stored_name == PhotoStoredName(loc[c].job_no, now, random_part, filename)
       IN  IF file_storage = ""
           THEN /\ UNCHANGED photoDir
                /\ GotoWith(c, "photos", [loc[c] EXCEPT !.files = Tail(loc[c].files)])
           ELSE IF filename = "" \/ ~fsok
           THEN /\ photoDir' = Unlink(photoDir, StoredNames(loc[c].saved_entries))
                /\ Done(c, 400)
           ELSE /\ photoDir' = photoDir \cup {stored_name}
                /\ GotoWith(c, "photos",
                       [loc[c] EXCEPT !.files = Tail(loc[c].files),
                                      !.saved_entries = Append(loc[c].saved_entries,
                                          [original_name |-> filename, stored_name |-> stored_name])])

\* A faulty variant: photo_count counts only the photos of this request.
CompletionCountsBatch(order, saved_entries, mount_type, note) ==
    [ montaj_completed  |-> TRUE,
      montaj_completion |-> <<[ mount_type  |-> normalize_text(mount_type),
                                note        |-> Strip(note),
                                photo_count |-> Len(saved_entries) ]>>,
      photos            |-> order.photos \o saved_entries ]

\* A faulty variant: the update_doc leaves the photos list as it was read.
CompletionWithoutPhotos(order, saved_entries, mount_type, note) ==
    [ montaj_completed  |-> TRUE,
      montaj_completion |-> <<[ mount_type  |-> normalize_text(mount_type),
                                note        |-> Strip(note),
                                photo_count |-> Len(order.photos) + Len(saved_entries) ]>>,
      photos            |-> order.photos ]

\* the update_doc of complete_order, from the document read at the start
CompletionUpdate(order, saved_entries, mount_type, note) ==
    [ montaj_completed  |-> TRUE,
      montaj_completion |-> <<[ mount_type  |-> normalize_text(mount_type),
                                note        |-> Strip(note),
                                photo_count |-> Len(order.photos) + Len(saved_entries) ]>>,
      photos            |-> order.photos \o saved_entries ]

\* complete_order after the loop: the check that a photo was saved, the
\* update_one and the response
CompleteDb(c, mount_type, note, dbo) ==
    /\ pc[c] = "photos"
    /\ loc[c].files = <<>>
    /\ normalize_text(mount_type) \in MOUNT_TYPES
    /\ UNCHANGED <<technicians, invoiceDir, photoDir, now, session, req>>
    /\ LET updated == UpdateOne(orders, loc[c].job_no,
                          CompletionUpdate(loc[c].order[1], loc[c].saved_entries, mount_type, note))
       IN  IF loc[c].saved_entries = <<>>
           THEN Done(c, 400) /\ UNCHANGED orders
           ELSE IF dbo = "update_fails"
           THEN Done(c, 500) /\ UNCHANGED orders
           ELSE IF dbo = "find_fails"
           THEN Done(c, 500) /\ orders' = updated
           ELSE /\ orders' = updated
                /\ Done(c, IF FindOne(updated, loc[c].job_no) = None THEN 500 ELSE 200)

\* A faulty variant: update_order lets the payload set job_no.
AllowedFieldsWithJobNo ==
    {"priority", "name", "model", "phone", "service", "rnu", "address", "job_no"}

\* allowed_fields of update_order
ALLOWED_FIELDS == {"priority", "name", "model", "phone", "service", "rnu", "address"}

\* A faulty variant: an edit of the order reopens it.
UpdateDocReopens(data) ==
    [ key \in (ALLOWED_FIELDS \cap DOMAIN data) \cup {"montaj_completed"} |->
        IF key = "montaj_completed" THEN FALSE
        ELSE IF key = "priority"
        THEN IF normalize_text(Strip(Get(data, key))) \in PRIORITIES
             THEN normalize_text(Strip(Get(data, key))) ELSE DEFAULT_PRIORITY
        ELSE normalize_text(Strip(Get(data, key))) ]

\* the update_doc of update_order
UpdateDoc(data) ==
    [ key \in ALLOWED_FIELDS \cap DOMAIN data |->
        IF key = "priority"
        THEN IF normalize_text(Strip(Get(data, key))) \in PRIORITIES
             THEN normalize_text(Strip(Get(data, key))) ELSE DEFAULT_PRIORITY
        ELSE normalize_text(Strip(Get(data, key))) ]

\* update_order after its find_one
UpdateDb(c, data, dbo) ==
    /\ pc[c] = "upd_db"
    /\ UNCHANGED <<technicians, invoiceDir, photoDir, now, session, req>>
    /\ LET updated == UpdateOne(orders, loc[c].job_no, UpdateDoc(data))
       IN  IF DOMAIN UpdateDoc(data) = {}
           THEN Done(c, 400) /\ UNCHANGED orders
           ELSE IF dbo = "update_fails"
           THEN Done(c, 500) /\ UNCHANGED orders
           ELSE IF dbo = "find_fails"
           THEN Done(c, 500) /\ orders' = updated
           ELSE /\ orders' = updated
                /\ Done(c, IF FindOne(updated, loc[c].job_no) = None THEN 500 ELSE 200)

\* delete_order: the files of the document read at the start are unlinked;
\* an OSError is logged and the file stays
DeleteFiles(c, fsok) ==
    /\ pc[c] = "del_files"
    /\ UNCHANGED <<orders, technicians, now, session, req>>
    /\ LET order == loc[c].order[1]
       IN  /\ invoiceDir' = IF fsok /\ order.invoice # None
                            THEN Unlink(invoiceDir, {order.invoice[1].stored_name})
                            ELSE invoiceDir
           /\ photoDir' = IF fsok THEN Unlink(photoDir, StoredNames(order.photos)) ELSE photoDir
    /\ GotoWith(c, "del_db", [loc[c] EXCEPT !.order = None])

\* delete_order: delete_one and the response
DeleteDb(c, dbok) ==
    /\ pc[c] = "del_db"
    /\ UNCHANGED <<technicians, invoiceDir, photoDir, now, session, req>>
    /\ IF dbok
       THEN orders' = DeleteOne(orders, loc[c].job_no) /\ Done(c, 200)
       ELSE UNCHANGED orders /\ Done(c, 500)

---------------------------------------------------------------------------
(* Technicians and sessions. *)

\* login, POST: the technician with the normalized username and password
Login(c, username, password, dbok) ==
    /\ pc[c] = "login"
    /\ UNCHANGED <<orders, technicians, invoiceDir, photoDir, now, req>>
    /\ IF ~dbok
       THEN Done(c, 500) /\ UNCHANGED session
       ELSE IF /\ normalize_text(username) # <<>>
               /\ \E t \in technicians : /\ t.username = normalize_text(username)
                                         /\ t.password = normalize_text(password)
       THEN Done(c, 302) /\ session' = [session EXCEPT ![c] = TRUE]
       ELSE Done(c, 200) /\ UNCHANGED session

\* setup_admin: its own has_admin_user test
SetupCheck(c, dbok) ==
    /\ pc[c] = "setup_check"
    /\ UNCHANGED <<orders, technicians, invoiceDir, photoDir, now, session, req>>
    /\ IF has_admin_user(dbok)
       THEN Done(c, 302)
       ELSE IF req[c].method = "GET"
       THEN Done(c, 200)
       ELSE Goto(c, "setup_insert")

\* the unique index on username
DuplicateUsername(username) == \E t \in technicians : t.username = username

\* setup_admin, POST: the form, insert_one and the session
SetupInsert(c, name, username, password, dbok) ==
    /\ pc[c] = "setup_insert"
    /\ UNCHANGED <<orders, invoiceDir, photoDir, now, req>>
    /\ LET document == [ name     |-> normalize_text(name),
                         username |-> normalize_text(username),
                         password |-> normalize_text(password),
                         level    |-> 1 ]
       IN  IF document.name = <<>> \/ document.username = <<>> \/ document.password = <<>>
           THEN Done(c, 200) /\ UNCHANGED <<technicians, session>>
           ELSE IF ~dbok \/ DuplicateUsername(document.username)
           THEN Done(c, 200) /\ UNCHANGED <<technicians, session>>
           ELSE /\ technicians' = technicians \cup {document}
                /\ session' = [session EXCEPT ![c] = TRUE]
                /\ Done(c, 302)

\* int(data.get('level')) for the level texts of the model, 0 for None
ParseLevel(text) ==
    CASE Strip(text) = <<"1">> -> 1
      [] Strip(text) = <<"3">> -> 3
      [] Strip(text) = <<"4">> -> 4
      [] Strip(text) = <<"5">> -> 5
      [] OTHER -> 0

VALID_LEVELS == {3, 4, 5}

\* create_technician after the session check.  data.level says how the JSON
\* payload carries the level: not at all, as a string or as a number; a
\* number has no strip(), and the AttributeError is not caught (500).
CreateTechnician(c, data, dbok) ==
    /\ pc[c] = "tech"
    /\ UNCHANGED <<orders, invoiceDir, photoDir, now, session, req>>
    /\ LET document == [ name     |-> normalize_text(data.name),
                         username |-> normalize_text(data.username),
                         password |-> normalize_text(data.password),
                         level    |-> ParseLevel(data.level.text) ]
       IN  IF data.level.json = "number"
           THEN Done(c, 500) /\ UNCHANGED technicians
           ELSE IF \/ Strip(data.name) = <<>> \/ Strip(data.username) = <<>>
                   \/ Strip(data.password) = <<>> \/ Strip(data.level.text) = <<>>
           THEN Done(c, 400) /\ UNCHANGED technicians
           ELSE IF document.level \notin VALID_LEVELS
           THEN Done(c, 400) /\ UNCHANGED technicians
           ELSE IF ~dbok
           THEN Done(c, 500) /\ UNCHANGED technicians
           ELSE IF DuplicateUsername(document.username)
           THEN Done(c, 409) /\ UNCHANGED technicians
           ELSE technicians' = technicians \cup {document} /\ Done(c, 201)

---------------------------------------------------------------------------
(* The inputs the model draws from. *)

FULL_PAYLOAD ==
    [ priority |-> <<"o","r","t","a">>, name |-> <<" ","a">>, model |-> <<"a">>,
      phone |-> <<"a">>, service |-> <<"t","v"," ","k","u","r","u","l","u","m">>,
      address |-> <<"a"," ">>, note |-> <<" ","n"," ">> ]

CreatePayloads == { FULL_PAYLOAD, [FULL_PAYLOAD EXCEPT !.name = <<" ">>] }

BayiForms ==
    { [name |-> <<"a">>, phone |-> <<"a">>, model |-> <<"a">>, address |-> <<"a">>,
       note |-> <<"n">>],
      [name |-> <<"a">>, phone |-> <<" ">>, model |-> <<"a">>, address |-> <<"a">>] }

\* a job number no order ever has in the model
NoSuchJobNo == JobNoOf(CHOOSE n \in 0..MAX_SUFFIX : n \notin Suffixes)

UpdatePayloads ==
    { [name |-> <<"b"," ">>],
      [name |-> <<" ","a">>, job_no |-> NoSuchJobNo],
      [job_no |-> NoSuchJobNo, note |-> <<"x">>] }

InvoiceFiles == { <<>>, <<"">>, <<"..">>, <<"a.pdf">> }

PhotoUploads == { <<>>, <<"">>, <<"b.jpg">>, <<"b.jpg", "..">>, <<"b.jpg", "b.jpg">> }

RandomParts == { "AAAA", "BBBB" }

MountInputs == { <<"d","u","v","a","r">>, <<"x">> }

NoteInputs == { <<" ","o","k">> }

Tokens == { job_no_to_token(j) : j \in JobNos } \cup { <<>>, <<"t","e">> }

UsernameInputs == { <<>>, <<"u">> }

PasswordInputs == { <<"p">>, <<"q">> }

SetupPasswords == { <<"p">> }

\* the outcomes of an update_one followed by a find_one, given whether the
\* database may fail
DbOutcomes(oks) == { "ok" } \cup IF FALSE \in oks THEN { "update_fails", "find_fails" } ELSE {}

OrderRequests ==
    { [op |-> o, arg |-> j, method |-> "POST"] :
        o \in {"upload_invoice", "complete_order", "update_order", "delete_order"}, j \in JobNos }
    \cup { [op |-> o, arg |-> <<>>, method |-> "POST"] : o \in {"create_order", "bayi_create_order"} }

\* what the requests carry, and what _save_photo draws, when the requests
\* are served one after the other
Inputs ==
    [ payloads |-> CreatePayloads \cup BayiForms, updates |-> UpdatePayloads,
      invoices |-> InvoiceFiles, photos |-> PhotoUploads, randoms |-> { "AAAA" } ]

\* what the requests carry, and what _save_photo draws, when the handlers
\* interleave: the requests that pass validation
RaceInputs ==
    [ payloads |-> { FULL_PAYLOAD } \cup { f \in BayiForms : ~BayiMissing(f) },
      updates  |-> { u \in UpdatePayloads : "job_no" \in DOMAIN u },
      invoices |-> { <<"a.pdf">> },
      photos   |-> { <<"b.jpg">> },
      randoms  |-> RandomParts ]

Requests ==
    OrderRequests
    \cup { [op |-> o, arg |-> NoSuchJobNo, method |-> "POST"] :
             o \in {"upload_invoice", "complete_order", "update_order", "delete_order"} }
    \cup { [op |-> "download_photos", arg |-> j, method |-> "GET"] : j \in JobNos }
    \cup { [op |-> "upload_invoice_form", arg |-> t, method |-> m] :
             t \in Tokens, m \in {"GET", "POST"} }
    \cup { [op |-> o, arg |-> <<>>, method |-> "POST"] : o \in {"login", "logout", "setup_admin"} }

---------------------------------------------------------------------------
(* The specifications. *)

\* a step of the handler of client c's request on the orders and the files;
\* oks says whether the database and the file system may fail, in is what
\* the requests carry
OrderStep(c, oks, in) ==
    \/ \E data \in in.payloads, file \in in.invoices : Build(c, data, file)
    \/ \E n \in Suffixes, dbok \in oks : GenerateJobNo(c, n, dbok)
    \/ \E dbok \in oks : InsertOrder(c, dbok)
    \/ \E dbok \in oks, mount_type \in MountInputs, files \in in.photos :
         Lookup(c, dbok, mount_type, files)
    \/ \E file \in in.invoices, fsok \in oks : InvoiceSave(c, file, fsok)
    \/ \E dbo \in DbOutcomes(oks) : InvoiceDb(c, dbo)
    \/ \E random_part \in in.randoms, fsok \in oks : SavePhoto(c, random_part, fsok)
    \/ \E mount_type \in MountInputs, note \in NoteInputs, dbo \in DbOutcomes(oks) :
         CompleteDb(c, mount_type, note, dbo)
    \/ \E data \in in.updates, dbo \in DbOutcomes(oks) : UpdateDb(c, data, dbo)
    \/ \E fsok \in oks : DeleteFiles(c, fsok)
    \/ \E dbok \in oks : DeleteDb(c, dbok)

\* a step of login or setup_admin
TechnicianStep(c, oks) ==
    \/ \E username \in UsernameInputs, password \in PasswordInputs, dbok \in oks :
         Login(c, username, password, dbok)
    \/ \E dbok \in oks : SetupCheck(c, dbok)
    \/ \E username \in UsernameInputs, password \in SetupPasswords, dbok \in oks :
         SetupInsert(c, <<"a">>, username, password, dbok)

\* the client whose requests are served one after the other
SerialClients == {1}

\* One client's requests, each served to its end before the next; the
\* database and the file system may fail.
Next ==
    \/ Tick
    \/ \E c \in SerialClients :
         \/ \E r \in Requests, dbok \in BOOLEAN : Begin(c, r, dbok)
         \/ Return(c)
         \/ OrderStep(c, BOOLEAN, Inputs)
         \/ TechnicianStep(c, BOOLEAN)

Spec == Init /\ [][Next]_vars

\* The state once the admin is set up and every client has logged in.
InitRace ==
    /\ orders = <<>>
    /\ technicians = {[name |-> <<"A">>, username |-> <<"U">>, password |-> <<"P">>, level |-> 1]}
    /\ invoiceDir = {}
    /\ photoDir = {}
    /\ now = 0
    /\ session = [c \in Clients |-> TRUE]
    /\ pc = [c \in Clients |-> "idle"]
    /\ req = [c \in Clients |-> ReqNone]
    /\ loc = [c \in Clients |-> LocInit]
    /\ resp = [c \in Clients |-> 0]

\* The handlers of the clients' requests on the orders interleave, within
\* one second of the clock.
NextRace ==
    \E c \in Clients :
       \/ \E r \in OrderRequests : Begin(c, r, TRUE)
       \/ Return(c)
       \/ OrderStep(c, {TRUE}, RaceInputs)

SpecRace == InitRace /\ [][NextRace]_vars

\* A state with one order, of any job number generate_job_no can produce.
InitToken ==
    /\ \E n \in 0..MAX_SUFFIX :
         orders = <<[BuildOrderDocument(FULL_PAYLOAD) EXCEPT !.job_no = JobNoOf(n)]>>
    /\ technicians = {[name |-> <<"A">>, username |-> <<"U">>, password |-> <<"P">>, level |-> 1]}
    /\ invoiceDir = {}
    /\ photoDir = {}
    /\ now = 0
    /\ session = [c \in Clients |-> FALSE]
    /\ pc = [c \in Clients |-> "idle"]
    /\ req = [c \in Clients |-> ReqNone]
    /\ loc = [c \in Clients |-> LocInit]
    /\ resp = [c \in Clients |-> 0]

\* the links the SMS of _notify_new_order carries for the stored orders, and
\* tokens too short to hold a job number
TokenRequests ==
    { [op |-> "upload_invoice_form", arg |-> t, method |-> "GET"] :
        t \in { job_no_to_token(orders[i].job_no) : i \in 1..Len(orders) }
              \cup { <<>>, <<"t">>, <<"t","e">>, <<" ","t","e"," ">> } }

\* The public upload form is opened through a token.
NextToken ==
    \E c \in SerialClients :
       \/ \E r \in TokenRequests : Begin(c, r, TRUE)
       \/ Return(c)
       \/ Lookup(c, TRUE, <<>>, <<>>)

SpecToken == InitToken /\ [][NextToken]_vars

\* creations, and deletions that free a job number again
GenRequests ==
    { [op |-> "create_order", arg |-> <<>>, method |-> "POST"] }
    \cup { [op |-> "delete_order", arg |-> JobNoOf(n), method |-> "POST"] : n \in 0..MaxGen }

\* One client creates and deletes orders, drawing the job numbers among
\* MaxGen + 1 suffixes, so that the collection can come to hold every one.
NextGen ==
    \E c \in SerialClients :
       \/ \E r \in GenRequests : Begin(c, r, TRUE)
       \/ Return(c)
       \/ Build(c, FULL_PAYLOAD, <<>>)
       \/ \E n \in 0..MaxGen : GenerateJobNo(c, n, TRUE)
       \/ InsertOrder(c, TRUE)
       \/ Lookup(c, TRUE, <<>>, <<>>)
       \/ DeleteFiles(c, TRUE)
       \/ DeleteDb(c, TRUE)

\* random.choices is fair: a suffix that stays free is drawn in the end
FairChoice ==
    \A c \in SerialClients : \A n \in 0..MaxGen : WF_vars(GenerateJobNo(c, n, TRUE))

SpecGen == InitRace /\ [][NextGen]_vars /\ FairChoice

\* the usernames two first-run setups may ask for
SetupUsernames == { <<"u">>, <<"v">> }

\* the payloads of create_technician: a level the handler accepts, the
\* admin's level, a level sent as a JSON number, and no level
TechnicianPayloads ==
    { [name |-> <<"a">>, username |-> <<"w">>, password |-> <<"p">>, level |-> l] :
        l \in { [json |-> "string", text |-> <<"3">>], [json |-> "string", text |-> <<"1">>],
                [json |-> "number", text |-> <<"3">>], [json |-> "none", text |-> <<>>] } }

SetupRequests ==
    { [op |-> o, arg |-> <<>>, method |-> "POST"] :
        o \in {"setup_admin", "login", "create_technician"} }

\* The handlers of two clients' setup, login and create_technician requests
\* interleave, from the state in which there is no technician yet.
NextSetup ==
    \E c \in Clients :
       \/ \E r \in SetupRequests : Begin(c, r, TRUE)
       \/ Return(c)
       \/ SetupCheck(c, TRUE)
       \/ \E username \in SetupUsernames : SetupInsert(c, <<"a">>, username, <<"p">>, TRUE)
       \/ \E username \in SetupUsernames : Login(c, username, <<"p">>, TRUE)
       \/ \E data \in TechnicianPayloads : CreateTechnician(c, data, TRUE)

SpecSetup == Init /\ [][NextSetup]_vars

---------------------------------------------------------------------------
(* Properties. *)

\* client c takes a step of its handler
Acts(c) == pc'[c] # pc[c] \/ loc'[c] # loc[c]

\* an order with this job number is stored
Stored(job_no) == \E i \in 1..Len(orders) : orders[i].job_no = job_no

\* the job numbers of the stored orders, in the order of the collection
JobNoSeq(coll) == [i \in 1..Len(coll) |-> coll[i].job_no]

CompletedHasInvoice ==
    \A i \in 1..Len(orders) : orders[i].montaj_completed => orders[i].invoice # None

\* C2, amended: an order whose montaj_completed is true has a completion
\* record and at least one photo, and its photo_count is at least 1; it need
\* not have an invoice.
CompletedHasPhotos ==
    \A i \in 1..Len(orders) :
        orders[i].montaj_completed =>
            /\ orders[i].montaj_completion # None
            /\ orders[i].photos # <<>>
            /\ orders[i].montaj_completion[1].photo_count >= 1

\* C2: an order is completed and has no invoice.
CompletedWithoutInvoice ==
    \E i \in 1..Len(orders) : orders[i].montaj_completed /\ orders[i].invoice = None

\* C3: no step removes a photo from the photos list of an order that stays
\* stored: what a complete_order call appended is there in every later state
\* until the order is deleted.
PhotosKept ==
    [][\A i \in 1..Len(orders) : \A k \in 1..Len(orders') :
          (Len(orders') = Len(orders) /\ i = k)
              => StoredNames(orders[i].photos) \subseteq StoredNames(orders'[k].photos)]_vars

\* C4, as stated: a request without a logged-in session, other than the public
\* upload form, changes neither the order collection nor the upload
\* directories, and gets 401 from the handlers that check the session.
GateAsStated ==
    [][\A c \in Clients :
          /\ (Acts(c) /\ ~session[c] /\ req'[c].op # "upload_invoice_form")
                => UNCHANGED <<orders, invoiceDir, photoDir>>
          /\ (pc[c] = "idle" /\ Acts(c) /\ ~session[c]
                /\ req'[c].op \in {"create_order", "upload_invoice", "complete_order",
                                   "update_order", "delete_order", "download_photos"})
                => (pc'[c] = "done" /\ resp'[c] = 401)]_vars

\* C4, amended: without a logged-in session only the public upload form and
\* the dealer's bayi_create_order change the order collection or the upload
\* directories; the handlers that check the session are answered at once,
\* with 401, or with the 302 of enforce_initial_setup.
GateAmended ==
    [][\A c \in Clients :
          /\ (Acts(c) /\ ~session[c]
                /\ req'[c].op \notin {"upload_invoice_form", "bayi_create_order"})
                => UNCHANGED <<orders, invoiceDir, photoDir>>
          /\ (pc[c] = "idle" /\ Acts(c) /\ ~session[c]
                /\ req'[c].op \in {"create_order", "upload_invoice", "complete_order",
                                   "update_order", "delete_order", "download_photos"})
                => (pc'[c] = "done" /\ resp'[c] \in {401, 302})]_vars

\* C4: a delete_order without a session was answered 401 while an admin and
\* an order exist.
UnauthorizedDelete ==
    \E c \in Clients :
        /\ pc[c] = "done" /\ req[c].op = "delete_order" /\ resp[c] = 401
        /\ ~session[c] /\ Stored(req[c].arg)
        /\ \E t \in technicians : t.level = 1

\* C5: no step changes the job_no of a stored order: the job numbers of the
\* collection change only by the insert_one that appends one and the
\* delete_one that removes one, and update_order, whatever its payload,
\* leaves them as they are.
JobNoImmutable ==
    [][/\ Len(orders') = Len(orders) => JobNoSeq(orders') = JobNoSeq(orders)
       /\ Len(orders') > Len(orders) =>
             JobNoSeq(orders) = SubSeq(JobNoSeq(orders'), 1, Len(orders))
       /\ \A c \in Clients :
             (pc[c] \in {"upd_db", "inv_db", "photos"} /\ Acts(c))
                 => JobNoSeq(orders') = JobNoSeq(orders)]_vars

\* C5: an update_order whose payload may name a job_no has answered 200.
UpdateAnswered ==
    \E c \in Clients :
        /\ pc[c] = "done" /\ req[c].op = "update_order" /\ resp[c] = 200
        /\ \E i \in 1..Len(orders) : orders[i].name = <<"A">> /\ orders[i].job_no = req[c].arg

\* C6: the token of a stored job number is the job number without its
\* hyphen, token_to_job_no gives the job number back, the public form opened
\* with that token finds the order, and a token of fewer than three
\* characters after trimming gets no job number and no lookup.
TokenRoundTrip ==
    /\ \A i \in 1..Len(orders) :
          LET job_no == orders[i].job_no
          IN  /\ job_no_to_token(job_no) = SubSeq(job_no, 1, 2) \o SubSeq(job_no, 4, Len(job_no))
              /\ token_to_job_no(job_no_to_token(job_no)) = job_no
    /\ \A c \in Clients :
          req[c].op = "upload_invoice_form" =>
             /\ (pc[c] = "lookup" => Len(Strip(req[c].arg)) >= 3)
             /\ (pc[c] = "lookup" /\ \E i \in 1..Len(orders) :
                                        req[c].arg = SubSeq(orders[i].job_no, 1, 2)
                                                       \o SubSeq(orders[i].job_no, 4, 7))
                   => loc[c].job_no \in { orders[i].job_no : i \in 1..Len(orders) }
             /\ (pc[c] = "done" /\ Len(Strip(req[c].arg)) < 3 => resp[c] = 400)
             /\ (pc[c] = "done" /\ Len(Strip(req[c].arg)) >= 3 => resp[c] = 200)

\* C6: the public form, opened with the token of a job number with four
\* different digits, has found the order.
TokenFormFound ==
    \E c \in Clients :
        /\ pc[c] = "done" /\ req[c].op = "upload_invoice_form" /\ resp[c] = 200
        /\ req[c].arg = <<"T", "E", "1", "2", "3", "4">>
        /\ orders[1].job_no = <<"T", "E", "-", "1", "2", "3", "4">>

\* the free-text fields C7 names, but for the note
UPPER_FIELDS == {"name", "phone", "model", "service", "address"}

\* C7, as stated: every free-text field of every stored order, the note
\* included, is trimmed and upper-cased.
AllTextNormalized ==
    \A i \in 1..Len(orders) :
        /\ \A f \in UPPER_FIELDS : orders[i][f] = Upper(Strip(orders[i][f]))
        /\ orders[i].note = Upper(Strip(orders[i].note))

\* C7, amended: name, phone, model, service and address of every stored
\* order are trimmed and upper-cased; the note is trimmed and keeps its case.
TextNormalizedButNote ==
    \A i \in 1..Len(orders) :
        /\ \A f \in UPPER_FIELDS : orders[i][f] = Upper(Strip(orders[i][f]))
        /\ orders[i].note = Strip(orders[i].note)

\* C7: an order created from padded lower-case text and then renamed by
\* update_order is stored with a lower-case note.
LowerCaseNoteStored ==
    \E i \in 1..Len(orders) :
        /\ orders[i].note = <<"n">>
        /\ orders[i].name = <<"B">>
        /\ orders[i].address = <<"A">>

\* C8: the stored name _store_invoice gives a file is the name of no file
\* already in the invoice directory.
InvoiceNameFresh ==
    [][\A c \in Clients :
          (pc[c] = "inv_save" /\ pc'[c] = "inv_db")
              => loc'[c].saved_entries[1].stored_name \notin invoiceDir]_vars

\* C9: when file_storage.save fails on a valid invoice file, the request is
\* answered 500.
SaveFailureIs500 ==
    [][\A c \in Clients : \A file \in InvoiceFiles :
          (/\ pc[c] = "inv_save"
           /\ req[c].op = "upload_invoice"
           /\ file # <<>> /\ secure_filename(file[1]) # ""
           /\ InvoiceSave(c, file, FALSE))
              => resp'[c] = 500]_vars

\* the handlers C10 names
ADDRESSED == {"upload_invoice", "complete_order", "update_order", "delete_order",
              "download_photos", "upload_invoice_form"}

\* the job number a request addresses
Addressed(r) == IF r.op = "upload_invoice_form" THEN token_to_job_no(r.arg) ELSE r.arg

\* C10, as stated: a request of one of the six handlers that addresses a job
\* number of no stored order (with a session where the handler checks it)
\* changes nothing and is answered 404.
MissingIs404 ==
    [][\A c \in Clients :
          /\ (pc[c] = "idle" /\ Acts(c) /\ req'[c].op \in ADDRESSED
                /\ (login_required(req'[c].op) => session[c])
                /\ Addressed(req'[c]) # None /\ ~Stored(Addressed(req'[c])))
                => (pc'[c] = "done" => resp'[c] = 404)
          /\ (pc[c] = "lookup" /\ Acts(c) /\ ~Stored(loc[c].job_no))
                => (resp'[c] = 404 /\ UNCHANGED <<orders, invoiceDir, photoDir>>)]_vars

\* C10, amended: when the find_one of one of the six handlers meets no order
\* with the addressed job number, the request ends there, with 404, or 500
\* if find_one itself raises, and the order collection and the upload
\* directories are unchanged; a request that does not reach its find_one
\* is one enforce_initial_setup redirects (302), or a token with no job
\* number (400).
MissingEndsAtLookup ==
    [][\A c \in Clients :
          /\ (pc[c] = "idle" /\ Acts(c) /\ req'[c].op \in ADDRESSED
                /\ (login_required(req'[c].op) => session[c])
                /\ Addressed(req'[c]) # None /\ ~Stored(Addressed(req'[c])))
                => (pc'[c] = "done" => resp'[c] = 302)
          /\ (pc[c] = "lookup" /\ Acts(c) /\ ~Stored(loc[c].job_no))
                => (/\ pc'[c] = "done"
                    /\ resp'[c] \in {404, 500}
                    /\ UNCHANGED <<orders, invoiceDir, photoDir>>)]_vars

\* C10: an update_order addressed to a job number that is not stored, while
\* another order is, was answered 404.
MissingAnswered404 ==
    \E c \in Clients :
        /\ pc[c] = "done" /\ req[c].op = "update_order" /\ resp[c] = 404
        /\ ~Stored(req[c].arg) /\ orders # <<>>

\* the fields of an order a completion does not write
KEPT_BY_COMPLETION == {"job_no", "priority", "name", "model", "phone", "service", "rnu",
                       "address", "note", "invoice"}

\* C11: no step takes the montaj_completed flag of an order that stays stored
\* from true to false, whether the step belongs to update_order, an invoice
\* upload, a further complete_order or a request that fails; and the
\* update_one of a further completion leaves the order completed and changes
\* none of its fields but the completion record and the photos list.
CompletionOneWay ==
    [][/\ \A i \in 1..Len(orders) : \A k \in 1..Len(orders') :
             (orders[i].job_no = orders'[k].job_no /\ orders[i].montaj_completed)
                 => orders'[k].montaj_completed
       /\ \A c \in Clients :
             (pc[c] = "photos" /\ Acts(c) /\ orders' # orders)
                 => /\ Len(orders') = Len(orders)
                    /\ \A i \in 1..Len(orders) :
                          orders'[i] # orders[i] =>
                             /\ orders'[i].montaj_completed
                             /\ \A f \in KEPT_BY_COMPLETION : orders'[i][f] = orders[i][f]]_vars

\* C11: a completed order has since been edited by update_order, which
\* answered 200, and is still completed.
CompletedThenUpdated ==
    \E c \in Clients :
        /\ pc[c] = "done" /\ req[c].op = "update_order" /\ resp[c] = 200
        /\ \E i \in 1..Len(orders) :
              /\ orders[i].job_no = req[c].arg
              /\ orders[i].montaj_completed
              /\ orders[i].name = <<"B">>

\* C12: whatever the order collection holds when generate_job_no starts, the
\* loop ends: a handler in generate_job_no leaves it.
GenerationTerminates ==
    \A c \in SerialClients : (pc[c] = "gen") ~> (pc[c] # "gen")

\* C12, where a suffix is free: a handler in generate_job_no while the
\* collection lacks one of the job numbers leaves the loop.
GenerationTerminatesWhileFree ==
    \A c \in SerialClients :
        (pc[c] = "gen" /\ \E n \in 0..MaxGen : ~Stored(JobNoOf(n))) ~> (pc[c] # "gen")

\* the handlers C13 names
CHANGING == {"create_order", "bayi_create_order", "upload_invoice", "complete_order",
             "update_order"}

\* C13: the step with which one of these handlers answers 400 or 500, the
\* only step of the request that may write, leaves the order collection as
\* it is; and when bayi_create_order answers 400 or 500, the order with the
\* job number it generated is not stored.
FailedRequestChangesNothing ==
    [][\A c \in Clients :
          (Acts(c) /\ pc'[c] = "done" /\ resp'[c] \in {400, 500} /\ req'[c].op \in CHANGING)
              => /\ orders' = orders
                 /\ req'[c].op = "bayi_create_order" => ~Stored(loc[c].job_no)]_vars

\* the stored names of the invoice records of the stored orders
ReferencedInvoices ==
    { orders[i].invoice[1].stored_name : i \in { k \in 1..Len(orders) : orders[k].invoice # None } }

\* the stored names in the photos lists of the stored orders
ReferencedPhotos == UNION { StoredNames(orders[i].photos) : i \in 1..Len(orders) }

\* C14: while no request is in progress, every file in the invoice directory
\* is the file of the invoice record of a stored order, and every file in
\* the photo directory is in the photos list of a stored order.
NoOrphanedFiles ==
    (\A c \in Clients : pc[c] \in {"idle", "done"})
        => (invoiceDir \subseteq ReferencedInvoices /\ photoDir \subseteq ReferencedPhotos)

\* C15: the technician collection holds at most one level-1 record.
AtMostOneAdmin == Cardinality({ t \in technicians : t.level = 1 }) <= 1

\* C16: for every stored order, montaj_completed is true exactly when the
\* order has a completion record, and then the record's photo_count is the
\* length of the photos list and at least 1.
CompletionConsistent ==
    \A i \in 1..Len(orders) :
        /\ orders[i].montaj_completed <=> orders[i].montaj_completion # None
        /\ orders[i].montaj_completed =>
              /\ orders[i].montaj_completion[1].photo_count = Len(orders[i].photos)
              /\ orders[i].montaj_completion[1].photo_count >= 1

\* C16: an order completed a second time lists the photos of both
\* completions and counts two, while another client's request is in progress.
CompletedTwice ==
    \E i \in 1..Len(orders) :
        /\ orders[i].montaj_completed
        /\ Len(orders[i].photos) = 2
        /\ orders[i].montaj_completion[1].photo_count = 2
        /\ \E c \in Clients : pc[c] \notin {"idle", "done"}

=============================================================================
